---- MODULE Spec2Model ----
(***************************************************************************)
(* Model of the order fulfilment and sales forecasting run of              *)
(* api_client.py (OrderProcessor, Order, ProductOption,                    *)
(* InventoryLevelsUpdater and the __main__ block) and of the series        *)
(* builder of sale_prediction.py (YearMonth, SalePredictor).               *)
(*                                                                         *)
(* Python dictionaries keep insertion order, so a dictionary is a          *)
(* sequence of [key, value] records with distinct keys.  An Optional       *)
(* integer is the empty sequence (None) or a one-element sequence.         *)
(***************************************************************************)
EXTENDS Integers, Sequences, FiniteSets, TLC

(* ---------------------------- bounds ----------------------------------- *)
MaxOrders == 2      \* orders fetched in a run of several orders
MaxItems == 2       \* items of the order in a run of one order
MaxQty == 2         \* largest quantity of an item or of an option
MaxSales == 3       \* sale records handed to a SalePredictor
MaxMonth == 2       \* months after the first month a sale can be dated in
MaxEntries == 3     \* entries of a dictionary handed to _sort_and_get_first on its own
MaxShift == 14      \* months before or after November 2022 of a YearMonth taken on its own

(* --------------------------- the state --------------------------------- *)
VARIABLES
    products_dict,      \* OrderProcessor.products_dict: product id -> option id -> option
    orders,             \* OrderProcessor.orders, in fetch order
    today,              \* datetime.today() of the run, as a YearMonth
    pc,                 \* position of __main__
    orders_to_process,  \* what is left of the list process_orders iterates over
    requests,           \* requests handed to the request layer, in order
    error,              \* exception that reached __main__, "none" if none
    handled,            \* orders process_orders has called the handler for, in order
    metrics,            \* whether print_metrics printed its report
    reported,           \* what print_metrics reported, << >> before it did
    po_sales,           \* result of get_products_sale_series, << >> before it ran
    data,               \* SalePredictor._prepare_data's matrices, group -> matrix
    predicted_sales,    \* SalePredictor._predict's result, group -> forecast or None
    var_calls,          \* history: the groups whose matrix was handed to VAR, in order
    report,             \* what _print_predicted_sales printed: a section for a group
    args,               \* arguments of a call of a function taken on its own
    returned,           \* what that call returned, << >> before it returns
    quantity_at_start   \* history: products_dict as it was fetched

vars == <<products_dict, orders, today, pc, orders_to_process, requests, error,
          handled, metrics, reported, po_sales, data, predicted_sales, var_calls,
          report, args, returned, quantity_at_start>>

(* ------------------------- Python helpers ------------------------------ *)
None == << >>

Some(v) == <<v>>

NoSku == "None"

\* key in d
DictHas(d, k) == \E i \in 1..Len(d) : d[i].key = k

\* d[k]
DictGet(d, k) == d[CHOOSE i \in 1..Len(d) : d[i].key = k].value

\* d[k] = v: an existing key keeps its position, a new key goes last
DictSet(d, k, v) ==
    IF DictHas(d, k)
    THEN [d EXCEPT ![CHOOSE i \in 1..Len(d) : d[i].key = k] = [key |-> k, value |-> v]]
    ELSE Append(d, [key |-> k, value |-> v])

\* d.setdefault(k, default), read only
DictGetDefault(d, k, default) == IF DictHas(d, k) THEN DictGet(d, k) ELSE default

(* ------------------------------ Order ---------------------------------- *)
NEW_ == "NEW"   \* NEW is a reserved word of TLA+
PROCESSING == "PROCESSING"
PRE_TRANSIT == "PRE_TRANSIT"
IN_TRANSIT == "IN_TRANSIT"
DELIVERED == "DELIVERED"
BACKORDERED == "BACKORDERED"
CANCELED == "CANCELED"

OrderState == {NEW_, PROCESSING, PRE_TRANSIT, IN_TRANSIT, DELIVERED, BACKORDERED, CANCELED}

SOLD_STATES == {PROCESSING, PRE_TRANSIT, IN_TRANSIT, DELIVERED}

\* is_new taking a backordered order for a new one
is_new_or_backordered(order) == order.state \in {NEW_, BACKORDERED}

is_new(order) == order.state = NEW_

is_sold(order) == order.state \in SOLD_STATES

is_canceled(order) == order.state = CANCELED

(* --------------------------- ProductOption ----------------------------- *)
\* the available_quantity property: an absent quantity reads as 0
available_quantity(product_option) ==
    IF product_option.available_quantity = None
    THEN 0
    ELSE product_option.available_quantity[1]

\* order_item resolves in the catalog (the lookup of line 380 raises no KeyError)
Resolves(pd, order_item) ==
    /\ order_item.product_id \in DOMAIN pd
    /\ order_item.product_option_id \in DOMAIN pd[order_item.product_id]

\* a ProductOption object: options are compared and hashed by identity
OptionKey(order_item) == <<order_item.product_id, order_item.product_option_id>>

OptionOf(pd, key) == pd[key[1]][key[2]]

(* ----------------------- InventoryLevelsUpdater ------------------------ *)
\* the "inventories" list of update_inventory_levels, from entry i on:
\* one entry per option of the dictionary, options without sku left out
RECURSIVE InventoryList(_, _, _)
InventoryList(pd, product_options_levels, i) ==
    IF i > Len(product_options_levels)
    THEN << >>
    ELSE LET e == product_options_levels[i]
             rest == InventoryList(pd, product_options_levels, i + 1)
         IN  IF OptionOf(pd, e.key).sku = NoSku
             THEN rest
             ELSE <<[sku |-> OptionOf(pd, e.key).sku, current_quantity |-> e.value]>> \o rest

(* --------------------------- OrderProcessor ---------------------------- *)
\* indices of the orders that are new, in fetch order (the filter of line 371)
RECURSIVE FilterNew(_, _)
FilterNew(os, i) ==
    IF i > Len(os)
    THEN << >>
    ELSE IF is_new(os[i]) THEN <<i>> \o FilterNew(os, i + 1) ELSE FilterNew(os, i + 1)

\* one step of a stable ascending sort: i goes after every element whose
\* created_at is not greater than its own
InsertByCreation(os, sorted, i) ==
    LET before == SelectSeq(sorted, LAMBDA j : os[j].created_at <= os[i].created_at)
        after == SelectSeq(sorted, LAMBDA j : os[j].created_at > os[i].created_at)
    IN  before \o <<i>> \o after

\* sorted(list, key=created_at) (line 372), Python's sort being stable
RECURSIVE SortByCreation(_, _)
SortByCreation(os, list) ==
    IF list = << >>
    THEN << >>
    ELSE InsertByCreation(os, SortByCreation(os, SubSeq(list, 1, Len(list) - 1)),
                          list[Len(list)])

filter_and_sort_orders_by_creation(os) == SortByCreation(os, FilterNew(os, 1))

\* the test of line 385 with its operands exchanged
Insufficient_swapped(available, quantity) == quantity < available

\* the test of line 385
Insufficient(available, quantity) == available < quantity

\* the quantity of line 388, one too low
Decremented_one_more(available, quantity) == available - quantity - 1

\* the quantity stored for an option at line 388
Decremented(available, quantity) == available - quantity

\* the loop of lines 378-388 over the items of an order, from item i on:
\* the two dictionaries it fills
RECURSIVE Reconcile(_, _, _, _, _)
Reconcile(pd, items, i, items_to_backorder, po_quantity_to_update) ==
    IF i > Len(items)
    THEN [items_to_backorder |-> items_to_backorder,
          po_quantity_to_update |-> po_quantity_to_update]
    ELSE LET order_item == items[i] IN
         IF ~Resolves(pd, order_item)
         THEN Reconcile(pd, items, i + 1, items_to_backorder, po_quantity_to_update)
         ELSE LET product_option == OptionOf(pd, OptionKey(order_item)) IN
              IF Insufficient(available_quantity(product_option), order_item.quantity)
              THEN Reconcile(pd, items, i + 1,
                             DictSet(items_to_backorder, i, OptionKey(order_item)),
                             po_quantity_to_update)
              ELSE Reconcile(pd, items, i + 1, items_to_backorder,
                             DictSet(po_quantity_to_update, OptionKey(order_item),
                                     Decremented(available_quantity(product_option),
                                                 order_item.quantity)))

\* the branch of line 389
AcceptBranch(items_to_backorder) == items_to_backorder = << >>

\* post_dict of backorder_items: item -> the option's available quantity
PostDict(pd, items_to_backorder) ==
    [i \in 1..Len(items_to_backorder) |->
        [key |-> items_to_backorder[i].key,
         value |-> available_quantity(OptionOf(pd, items_to_backorder[i].value))]]

Request(kind, order, payload, ok) ==
    [kind |-> kind, order |-> order, payload |-> payload, ok |-> ok]

\* the exception caught around process_orders only, the run going on
Raise_and_go_on(exception) ==
    /\ pc' = "print_metrics"
    /\ error' = exception

\* the run ends in the except clause of __main__ (lines 498-499)
Raise(exception) ==
    /\ pc' = "done"
    /\ error' = exception

\* process_orders, up to the loop: the list of new orders by creation
FilterAndSort ==
    /\ pc = "start"
    /\ pc' = "process_orders"
    /\ orders_to_process' = filter_and_sort_orders_by_creation(orders)
    /\ UNCHANGED <<args, returned, var_calls, report, reported, quantity_at_start, products_dict, orders, today, requests, error, handled, metrics,
                   po_sales, data, predicted_sales>>

\* the accept branch with its two calls exchanged
AcceptSequence_accept_first(o, inventory) ==
    <<Request("accept", o, << >>, TRUE), Request("inventory_update", o, inventory, TRUE)>>

\* the requests of the accept branch (lines 390-391): the inventory levels
\* (update_inventory_levels, line 322), then accept_order (line 257)
AcceptSequence(o, inventory) ==
    <<Request("inventory_update", o, inventory, TRUE), Request("accept", o, << >>, TRUE)>>

\* the backorder branch sending the inventory levels as well
BackorderSequence_with_inventory(o, post_dict) ==
    <<Request("inventory_update", o, << >>, TRUE), Request("backorder", o, post_dict, TRUE)>>

\* the request of the backorder branch (line 393): backorder_items (line 265)
BackorderSequence(o, post_dict) == <<Request("backorder", o, post_dict, TRUE)>>

\* the requests made when the n-th request of a sequence raises URLError
FailAt(sequence, n) == [SubSeq(sequence, 1, n) EXCEPT ![n].ok = FALSE]

\* the state assigned before the request is made
StateOnFailure_assigned_first(state, new_state) == new_state

\* the state of an order whose request raised: the assignments of lines 258
\* and 266 come after the request and are not reached
StateOnFailure(state, new_state) == state

\* one iteration of the loop of process_orders:
\* _update_order_status_and_product_inventory(order), each of its requests
\* returning or raising URLError
UpdateOrder ==
    /\ pc = "process_orders"
    /\ orders_to_process # << >>
    /\ LET o == Head(orders_to_process)
           r == Reconcile(products_dict, orders[o].items, 1, << >>, << >>)
           accept == AcceptBranch(r.items_to_backorder)
           new_state == IF accept THEN PROCESSING ELSE BACKORDERED
           sequence ==
               IF accept
               THEN AcceptSequence(o, InventoryList(products_dict,
                                                    r.po_quantity_to_update, 1))
               ELSE BackorderSequence(o, PostDict(products_dict, r.items_to_backorder))
       IN  /\ handled' = Append(handled, o)
           /\ \/ /\ requests' = requests \o sequence
                 /\ orders' = [orders EXCEPT ![o].state = new_state]
                 /\ orders_to_process' = Tail(orders_to_process)
                 /\ UNCHANGED <<pc, error>>
              \/ \E n \in 1..Len(sequence) :
                    /\ requests' = requests \o FailAt(sequence, n)
                    /\ orders' = [orders EXCEPT
                                     ![o].state = StateOnFailure(@, new_state)]
                    /\ Raise("URLError")
                    /\ UNCHANGED orders_to_process
    /\ UNCHANGED <<args, returned, var_calls, report, reported, quantity_at_start, products_dict, today, metrics, po_sales, data, predicted_sales>>

\* process_orders returns: __main__ goes on to print_metrics
EndProcessOrders ==
    /\ pc = "process_orders"
    /\ orders_to_process = << >>
    /\ pc' = "print_metrics"
    /\ UNCHANGED <<args, returned, var_calls, report, reported, quantity_at_start, products_dict, orders, today, orders_to_process, requests, error,
                   handled, metrics, po_sales, data, predicted_sales>>

(* ------------------------------ YearMonth ------------------------------ *)
YearMonth(year, month) == [year |-> year, month |-> month]

\* YearMonth._year_month: int(str(year) + str(month).zfill(2))
year_month(ym) == ym.year * 100 + ym.month

months_diff(self, other) ==
    IF self.year # other.year
    THEN (self.year - other.year - 1) * 12 + (12 - other.month) + self.month
    ELSE self.month - other.month

\* add_months leaving month 0 where December is meant
add_months_no_december(self, n_month) ==
    YearMonth(self.year + ((self.month + (n_month % 12)) \div 12) + (n_month \div 12),
              (self.month + (n_month % 12)) % 12)

\* add_months: divmod is Python's, the quotient rounded down and the
\* remainder in 0..11, as \div and % are
add_months(self, n_month) ==
    LET years == n_month \div 12
        months == n_month % 12
        years_shift == (self.month + months) \div 12
        new_month == (self.month + months) % 12
    IN  IF new_month = 0
        THEN YearMonth(self.year + years_shift + years - 1, 12)
        ELSE YearMonth(self.year + years_shift + years, new_month)

\* __lt__ comparing the months and not the years
YearMonthLess_by_month(self, other) == self.month < other.month

\* YearMonth.__lt__
YearMonthLess(self, other) == year_month(self) < year_month(other)

\* to_datetime and Order.date_time: a creation timestamp, counted in months
\* from November 2022, as the calendar month it falls in
date_time(created_at) ==
    LET n == 2022 * 12 + 10 + created_at
    IN  YearMonth(n \div 12, (n % 12) + 1)

(* -------------------------------- metrics ------------------------------ *)
\* an item of a sold order that the lookup of line 413 raises KeyError for
MetricsKeyError(pd, os) ==
    \E o \in 1..Len(os) : /\ is_sold(os[o])
                          /\ \E i \in 1..Len(os[o].items) : ~Resolves(pd, os[o].items[i])

\* one step of sorted(range(0, len(objs)), key=counts.__getitem__,
\* reverse=reverse), an index going before the indices of the same count
InsertByCount_before_equals(counts, sorted, i, reverse) ==
    LET Before(j) == IF reverse THEN counts[j] > counts[i] ELSE counts[j] < counts[i]
    IN  SelectSeq(sorted, Before) \o <<i>> \o SelectSeq(sorted, LAMBDA j : ~Before(j))

\* one step of sorted(range(0, len(objs)), key=counts.__getitem__,
\* reverse=reverse): the sort is stable, also when reverse is set, so index i
\* goes after every index sorted so far whose count does not come after its own
InsertByCount(counts, sorted, i, reverse) ==
    LET Before(j) == IF reverse THEN counts[j] >= counts[i] ELSE counts[j] <= counts[i]
    IN  SelectSeq(sorted, Before) \o <<i>> \o SelectSeq(sorted, LAMBDA j : ~Before(j))

\* sorted(range(0, len(objs)), key=counts.__getitem__, reverse=reverse) of
\* the first n indices
RECURSIVE SortByCount(_, _, _)
SortByCount(counts, n, reverse) ==
    IF n = 0
    THEN << >>
    ELSE InsertByCount(counts, SortByCount(counts, n - 1, reverse), n, reverse)

\* _sort_and_get_first: (None, None) for an empty dictionary
sort_and_get_first(obj_dict, reverse) ==
    IF obj_dict = << >>
    THEN [obj |-> None, count |-> None]
    ELSE LET counts == [k \in 1..Len(obj_dict) |-> obj_dict[k].value]
             idx == SortByCount(counts, Len(obj_dict), reverse)[1]
         IN  [obj |-> obj_dict[idx].key, count |-> counts[idx]]

\* the sold orders, in the order of self.orders
SoldOrders(os) == SelectSeq([o \in 1..Len(os) |-> o], LAMBDA o : is_sold(os[o]))

\* the loops of _print_best_selling_product_option from item i of the s-th
\* sold order on: option -> units sold
RECURSIVE SellInfo(_, _, _, _, _)
SellInfo(os, sold, s, i, products_options_sell_info) ==
    IF s > Len(sold)
    THEN products_options_sell_info
    ELSE IF i > Len(os[sold[s]].items)
         THEN SellInfo(os, sold, s + 1, 1, products_options_sell_info)
         ELSE LET order_item == os[sold[s]].items[i]
                  count == DictGetDefault(products_options_sell_info,
                                          OptionKey(order_item), 0)
              IN  SellInfo(os, sold, s, i + 1,
                           DictSet(products_options_sell_info, OptionKey(order_item),
                                   count + order_item.quantity))

products_options_sell_info(os) == SellInfo(os, SoldOrders(os), 1, 1, << >>)

\* calculate_order_item_dollar_amount, in dollars
calculate_order_item_dollar_amount(order_item) ==
    (order_item.quantity * order_item.price_cents) \div 100

\* calculate_order_dollar_amount, from item i on
RECURSIVE calculate_order_dollar_amount(_, _)
calculate_order_dollar_amount(order, i) ==
    IF i > Len(order.items)
    THEN 0
    ELSE calculate_order_item_dollar_amount(order.items[i])
         + calculate_order_dollar_amount(order, i + 1)

\* calculate_items_quantity, from item i on
RECURSIVE calculate_items_quantity(_, _)
calculate_items_quantity(order, i) ==
    IF i > Len(order.items)
    THEN 0
    ELSE order.items[i].quantity + calculate_items_quantity(order, i + 1)

\* sold order -> dollar amount
orders_dollar_amount(os) ==
    LET sold == SoldOrders(os)
    IN  [s \in 1..Len(sold) |->
            [key |-> sold[s], value |-> calculate_order_dollar_amount(os[sold[s]], 1)]]

\* the loop of _print_state_with_most_orders from the s-th sold order on
RECURSIVE StateOrderCount(_, _, _, _)
StateOrderCount(os, sold, s, state_order_count) ==
    IF s > Len(sold)
    THEN state_order_count
    ELSE LET state == os[sold[s]].address_state
             count == DictGetDefault(state_order_count, state, 0)
         IN  StateOrderCount(os, sold, s + 1, DictSet(state_order_count, state, count + 1))

state_order_count(os) == StateOrderCount(os, SoldOrders(os), 1, << >>)

\* sold order -> number of units
order_item_quantity(os) ==
    LET sold == SoldOrders(os)
    IN  [s \in 1..Len(sold) |->
            [key |-> sold[s], value |-> calculate_items_quantity(os[sold[s]], 1)]]

\* _print_ratio_of_cancelled_orders: the canceled orders and all orders
ratio_of_cancelled_orders(os) ==
    IF Len(os) = 0
    THEN None
    ELSE Some(<<Len(SelectSeq(os, is_canceled)), Len(os)>>)

\* _calculate_and_print_metrics: what each of the five metrics prints
calculate_metrics(pd, os) ==
    [best_selling |-> sort_and_get_first(products_options_sell_info(os), TRUE),
     largest_order |-> sort_and_get_first(orders_dollar_amount(os), TRUE),
     state_with_most |-> sort_and_get_first(state_order_count(os), TRUE),
     biggest_order |-> sort_and_get_first(order_item_quantity(os), TRUE),
     ratio |-> ratio_of_cancelled_orders(os)]

\* print_metrics: _print_best_selling_product_option looks every item of every
\* sold order up in the catalog, with no except clause, before anything is
\* printed; then the five metrics are printed
PrintMetrics ==
    /\ pc = "print_metrics"
    /\ IF MetricsKeyError(products_dict, orders)
       THEN /\ Raise("KeyError")
            /\ UNCHANGED <<metrics, reported>>
       ELSE /\ pc' = "get_products_sale_series"
            /\ metrics' = "printed"
            /\ reported' = calculate_metrics(products_dict, orders)
            /\ UNCHANGED error
    /\ UNCHANGED <<args, returned, var_calls, report, quantity_at_start, products_dict, orders,
                   today, orders_to_process, requests, handled, po_sales, data,
                   predicted_sales>>

(* -------------------------------- sales -------------------------------- *)
\* Sale(product_option_id, sale_date, quantity, group); order and item say
\* which item of which order the record was made for
Sale(product_option_id, sale_date, quantity, group, order, item) ==
    [product_option_id |-> product_option_id, sale_date |-> sale_date,
     quantity |-> quantity, group |-> group, order |-> order, item |-> item]

\* the orders get_products_sale_series makes sales of (line 347)
SaleOrder(order) == TRUE

\* the loops of get_products_sale_series from item i of order o on
RECURSIVE SaleSeries(_, _, _, _)
SaleSeries(os, o, i, acc) ==
    IF o > Len(os)
    THEN acc
    ELSE IF i > Len(os[o].items) \/ ~SaleOrder(os[o])
         THEN SaleSeries(os, o + 1, 1, acc)
         ELSE LET order_item == os[o].items[i]
                  k == order_item.product_option_id
                  old == IF DictHas(acc, k) THEN DictGet(acc, k) ELSE << >>
              IN  SaleSeries(os, o, i + 1,
                             DictSet(acc, k,
                                     Append(old, Sale(k, date_time(os[o].created_at),
                                                      order_item.quantity,
                                                      os[o].address_state, o, i))))

get_products_sale_series(os) == SaleSeries(os, 1, 1, << >>)

GetProductsSaleSeries ==
    /\ pc = "get_products_sale_series"
    /\ pc' = "predict_next_month_sales"
    /\ po_sales' = get_products_sale_series(orders)
    /\ UNCHANGED <<args, returned, var_calls, report, reported, quantity_at_start, products_dict, orders, today, orders_to_process, requests, error,
                   handled, metrics, data, predicted_sales>>

(* ----------------------------- SalePredictor --------------------------- *)
\* the loops of _group_and_index_sales_by_month from sale s of the p-th
\* product option on: grouped_sales (group -> option -> month -> quantity)
\* and group_initial_year_month (group -> smallest month)
RECURSIVE GroupAndIndex(_, _, _, _, _)
GroupAndIndex(ps, p, s, grouped_sales, group_initial_year_month) ==
    IF p > Len(ps)
    THEN [grouped_sales |-> grouped_sales,
          group_initial_year_month |-> group_initial_year_month]
    ELSE IF s > Len(ps[p].value)
         THEN GroupAndIndex(ps, p + 1, 1, grouped_sales, group_initial_year_month)
         ELSE LET po == ps[p].key
                  sale == ps[p].value[s]
                  ym == sale.sale_date
                  of_group == DictGetDefault(grouped_sales, sale.group, << >>)
                  of_po == DictGetDefault(of_group, po, << >>)
                  quantity == DictGetDefault(of_po, ym, 0) + sale.quantity
                  initial_year_month ==
                      DictGetDefault(group_initial_year_month, sale.group, ym)
              IN  GroupAndIndex(ps, p, s + 1,
                      DictSet(grouped_sales, sale.group,
                              DictSet(of_group, po, DictSet(of_po, ym, quantity))),
                      DictSet(group_initial_year_month, sale.group,
                              IF YearMonthLess(ym, initial_year_month)
                              THEN ym
                              ELSE initial_year_month))

group_and_index_sales_by_month(ps) == GroupAndIndex(ps, 1, 1, << >>, << >>)

\* numpy.zeros((rows, cols)): row r of the array is element r + 1
zeros(rows, cols) == [r \in 1..rows |-> [c \in 1..cols |-> 0]]

\* the number of rows _prepare_data asks for (line 130)
Rows(today_year_month, initial) == months_diff(today_year_month, initial) + 1

\* list(d.keys()).index(k)
KeyIndex(d, k) == (CHOOSE i \in 1..Len(d) : d[i].key = k) - 1

\* the assignments of lines 134-136 for one option, from its m-th month on
RECURSIVE FillOption(_, _, _, _, _)
FillOption(group_data, of_po, m, po_index, initial) ==
    IF m > Len(of_po)
    THEN group_data
    ELSE LET row == months_diff(of_po[m].key, initial) IN
         FillOption([group_data EXCEPT ![row + 1][po_index + 1] = of_po[m].value],
                    of_po, m + 1, po_index, initial)

\* the loop of line 132 over the options of a group, from the p-th on
RECURSIVE FillGroup(_, _, _, _)
FillGroup(group_data, of_group, p, initial) ==
    IF p > Len(of_group)
    THEN group_data
    ELSE FillGroup(FillOption(group_data, of_group[p].value, 1,
                              KeyIndex(of_group, of_group[p].key), initial),
                   of_group, p + 1, initial)

\* numpy raises: ValueError for a negative dimension, IndexError for a row
\* index past the last row
GroupRaises(of_group, initial, today_year_month) ==
    \/ Rows(today_year_month, initial) < 0
    \/ \E p \in 1..Len(of_group) : \E m \in 1..Len(of_group[p].value) :
          months_diff(of_group[p].value[m].key, initial) >= Rows(today_year_month, initial)

PrepareRaises(grouped_sales, group_initial_date, today_year_month) ==
    \E g \in 1..Len(grouped_sales) :
        GroupRaises(grouped_sales[g].value,
                    DictGet(group_initial_date, grouped_sales[g].key), today_year_month)

\* the exception of the first group that raises one
PrepareException(grouped_sales, group_initial_date, today_year_month) ==
    LET Raising(g) == GroupRaises(grouped_sales[g].value,
                                  DictGet(group_initial_date, grouped_sales[g].key),
                                  today_year_month)
        first == CHOOSE g \in 1..Len(grouped_sales) :
                     Raising(g) /\ \A h \in 1..(g - 1) : ~Raising(h)
    IN  IF Rows(today_year_month,
                DictGet(group_initial_date, grouped_sales[first].key)) < 0
        THEN "ValueError"
        ELSE "IndexError"

\* _prepare_data: group -> matrix
prepare_data(grouped_sales, group_initial_date, today_year_month) ==
    [g \in 1..Len(grouped_sales) |->
        LET of_group == grouped_sales[g].value
            initial == DictGet(group_initial_date, grouped_sales[g].key)
        IN  [key |-> grouped_sales[g].key,
             value |-> FillGroup(zeros(Rows(today_year_month, initial), Len(of_group)),
                                 of_group, 1, initial)]]

\* the test of line 146: VAR must have at least 2 variables
LessThan2Variables(group_data) == Len(group_data[1]) < 2

\* the groups whose matrix goes to the forecasting library (lines 148-150)
Fitted(d) == {i \in 1..Len(d) : ~LessThan2Variables(d[i].value)}

\* what a call of the forecasting library (VAR, fit, forecast: lines 148-150)
\* does with a matrix: it returns a forecast, raises ValueError or raises an
\* exception of another class
VarOutcomes == {"forecast", "ValueError", "Exception"}

\* the except clause of line 151
Caught(exception) == exception \in {"ValueError", "VARLessThan2Variables"}

\* the loop of _predict from the i-th group on, the library doing outcome[i]
\* with the matrix of the i-th group: predicted_sales, the groups VAR was
\* called for and the exception that left the loop, "none" if none did
RECURSIVE Predict(_, _, _, _, _)
Predict(d, i, outcome, predicted, calls) ==
    IF i > Len(d)
    THEN [predicted_sales |-> predicted, var_calls |-> calls, raised |-> "none"]
    ELSE IF LessThan2Variables(d[i].value)
         THEN IF Caught("VARLessThan2Variables")
              THEN Predict(d, i + 1, outcome, DictSet(predicted, d[i].key, None), calls)
              ELSE [predicted_sales |-> predicted, var_calls |-> calls,
                    raised |-> "VARLessThan2Variables"]
         ELSE IF outcome[i] = "forecast"
              THEN Predict(d, i + 1, outcome,
                           DictSet(predicted, d[i].key, Some("forecast")),
                           Append(calls, d[i].key))
              ELSE IF Caught(outcome[i])
                   THEN Predict(d, i + 1, outcome, DictSet(predicted, d[i].key, None),
                                Append(calls, d[i].key))
                   ELSE [predicted_sales |-> predicted,
                         var_calls |-> Append(calls, d[i].key), raised |-> outcome[i]]

\* the options of a group, in the order of its columns
OptionsOf(of_group) == [p \in 1..Len(of_group) |-> of_group[p].key]

\* _print_predicted_sales: a section for every group whose forecast is not
\* None, with a line for every option of the group
print_predicted_sales(grouped_sales, predicted) ==
    LET printed == SelectSeq([g \in 1..Len(grouped_sales) |-> g],
                             LAMBDA g : DictGet(predicted, grouped_sales[g].key) # None)
    IN  [k \in 1..Len(printed) |->
            [group |-> grouped_sales[printed[k]].key,
             options |-> OptionsOf(grouped_sales[printed[k]].value)]]

\* predict_next_month_sales(today): the matrices (_prepare_data), the
\* forecasts (_predict) and the report (_print_predicted_sales); an
\* exception that _prepare_data or _predict does not catch ends the run
PredictNextMonthSales ==
    /\ pc = "predict_next_month_sales"
    /\ LET g == group_and_index_sales_by_month(po_sales) IN
       IF PrepareRaises(g.grouped_sales, g.group_initial_year_month, today)
       THEN /\ Raise(PrepareException(g.grouped_sales, g.group_initial_year_month, today))
            /\ UNCHANGED <<data, predicted_sales, var_calls, report>>
       ELSE /\ data' = prepare_data(g.grouped_sales, g.group_initial_year_month, today)
            /\ \E outcome \in [Fitted(data') -> VarOutcomes] :
                  LET r == Predict(data', 1, outcome, << >>, << >>) IN
                  /\ predicted_sales' = r.predicted_sales
                  /\ var_calls' = r.var_calls
                  /\ IF r.raised = "none"
                     THEN /\ report' = print_predicted_sales(g.grouped_sales,
                                                             r.predicted_sales)
                          /\ pc' = "done"
                          /\ UNCHANGED error
                     ELSE /\ Raise(r.raised)
                          /\ UNCHANGED report
    /\ UNCHANGED <<args, returned, reported, quantity_at_start, products_dict, orders, today,
                   orders_to_process, requests, handled, metrics, po_sales>>

(* ------------------------- the inputs of a run ------------------------- *)
\* the catalog holds product P1 with options A and B; an item of product P2
\* is an item of a product the catalog does not hold
OptionalQuantity == {None} \cup {Some(n) : n \in 0..MaxQty}

Catalog(quantity_a, quantity_b, sku_b) ==
    "P1" :> ("A" :> [sku |-> "skuA", available_quantity |-> quantity_a]
             @@ "B" :> [sku |-> sku_b, available_quantity |-> quantity_b])

\* the price of an item, by its option: 1 dollar for A, 2 dollars otherwise
price_cents(product_option_id) == IF product_option_id = "A" THEN 100 ELSE 200

OrderItem(product_id, product_option_id, quantity) ==
    [product_id |-> product_id, product_option_id |-> product_option_id,
     quantity |-> quantity, price_cents |-> price_cents(product_option_id)]

ItemOf(ref, quantity) == OrderItem(ref[1], ref[2], quantity)

ItemRefs == {<<"P1", "A">>, <<"P1", "B">>, <<"P2", "C">>}

Items == {ItemOf(ref, quantity) : ref \in ItemRefs, quantity \in 1..MaxQty}

\* the sequences of at most n elements of S
SeqsUpTo(S, n) == UNION {[1..k -> S] : k \in 0..n}

Order(state, created_at, items, address_state) ==
    [state |-> state, created_at |-> created_at, items |-> items,
     address_state |-> address_state]

\* creation times of the orders of a list, by position: ascending,
\* descending or all the same
CreationPatterns == {"ascending", "descending", "same"}

CreatedAt(pattern, position) ==
    CASE pattern = "ascending" -> position - 1
      [] pattern = "descending" -> MaxOrders - position
      [] OTHER -> 0

\* ship-to regions of the orders of a list, by position
RegionPatterns == {"one", "two"}

AddressState(pattern, position) ==
    IF pattern = "two" /\ position % 2 = 0 THEN "NY" ELSE "CA"

Start ==
    /\ pc = "start"
    /\ today = date_time(MaxOrders)
    /\ orders_to_process = << >>
    /\ requests = << >>
    /\ error = "none"
    /\ handled = << >>
    /\ metrics = "none"
    /\ reported = << >>
    /\ po_sales = << >>
    /\ data = << >>
    /\ predicted_sales = << >>
    /\ var_calls = << >>
    /\ report = << >>
    /\ args = << >>
    /\ returned = << >>
    /\ quantity_at_start = products_dict

\* a run over one new order of up to MaxItems items
InitOneOrder ==
    /\ \E qa \in OptionalQuantity, qb \in OptionalQuantity, sku_b \in {"skuB", NoSku} :
          products_dict = Catalog(qa, qb, sku_b)
    /\ \E items \in SeqsUpTo(Items, MaxItems) :
          orders = <<Order(NEW_, 0, items, "CA")>>
    /\ Start

\* a run over MaxOrders orders in any states, of one item each
InitOrders ==
    /\ \E qa \in OptionalQuantity : products_dict = Catalog(qa, Some(MaxQty), "skuB")
    /\ \E states \in [1..MaxOrders -> OrderState], refs \in [1..MaxOrders -> ItemRefs],
          creation \in CreationPatterns, region \in RegionPatterns :
          orders = [i \in 1..MaxOrders |->
                       Order(states[i], CreatedAt(creation, i), <<ItemOf(refs[i], 1)>>,
                             AddressState(region, i))]
    /\ Start

Init == InitOneOrder \/ InitOrders

Next ==
    \/ FilterAndSort
    \/ UpdateOrder
    \/ EndProcessOrders
    \/ PrintMetrics
    \/ GetProductsSaleSeries
    \/ PredictNextMonthSales

Spec == Init /\ [][Next]_vars

(* ------------------- the inputs of a SalePredictor --------------------- *)
SaleQuantities == {1, 2}

SaleGroups == {"CA", "NY"}

\* sale records of one option, not made from an order
SalesOf(product_option_id) ==
    {Sale(product_option_id, date_time(m), quantity, group, 0, 0) :
        m \in 0..MaxMonth, quantity \in SaleQuantities, group \in SaleGroups}

\* sale records of one unit
UnitSalesOf(product_option_id) == {sale \in SalesOf(product_option_id) : sale.quantity = 1}

\* SalePredictor(po_sales).predict_next_month_sales(today) for a mapping of
\* option A to sale records, or of options A and B with one record for B,
\* of at most MaxSales records in all, or of options A and B with two
\* records of one unit each; today is the last month a sale can be dated in
\* or the month before
InitSeries ==
    /\ products_dict = Catalog(None, None, NoSku)
    /\ orders = << >>
    /\ \E m \in (MaxMonth - 1)..MaxMonth : today = date_time(m)
    /\ \/ \E na \in 1..MaxSales :
          \E sales_a \in [1..na -> SalesOf("A")] :
             \/ po_sales = <<[key |-> "A", value |-> sales_a]>>
             \/ /\ na < MaxSales
                /\ \E sale_b \in SalesOf("B") :
                      po_sales = <<[key |-> "A", value |-> sales_a],
                                   [key |-> "B", value |-> <<sale_b>>]>>
       \/ \E sales_a \in [1..2 -> UnitSalesOf("A")], sales_b \in [1..2 -> UnitSalesOf("B")] :
             po_sales = <<[key |-> "A", value |-> sales_a],
                          [key |-> "B", value |-> sales_b]>>
    /\ pc = "predict_next_month_sales"
    /\ orders_to_process = << >>
    /\ requests = << >>
    /\ error = "none"
    /\ handled = << >>
    /\ metrics = "printed"
    /\ reported = calculate_metrics(products_dict, orders)
    /\ data = << >>
    /\ predicted_sales = << >>
    /\ var_calls = << >>
    /\ report = << >>
    /\ args = << >>
    /\ returned = << >>
    /\ quantity_at_start = products_dict

NextSeries == PredictNextMonthSales

SeriesSpec == InitSeries /\ [][NextSeries]_vars

(* --------------------- YearMonth taken on its own ---------------------- *)
\* the YearMonth values of the months around November 2022
YearMonths == {date_time(m) : m \in (0 - MaxShift)..MaxShift}

\* the state of a call of a function taken on its own: nothing was fetched
NoRun ==
    /\ products_dict = Catalog(None, None, NoSku)
    /\ orders = << >>
    /\ today = date_time(0)
    /\ orders_to_process = << >>
    /\ requests = << >>
    /\ error = "none"
    /\ handled = << >>
    /\ metrics = "none"
    /\ reported = << >>
    /\ po_sales = << >>
    /\ data = << >>
    /\ predicted_sales = << >>
    /\ var_calls = << >>
    /\ report = << >>
    /\ returned = << >>
    /\ quantity_at_start = products_dict

InitYearMonth ==
    /\ \E self \in YearMonths, other \in YearMonths, n_month \in (0 - MaxShift)..MaxShift :
          args = [self |-> self, other |-> other, n_month |-> n_month]
    /\ pc = "year_month"
    /\ NoRun

\* self.months_diff(other), other.months_diff(self), self.add_months(n_month)
\* and the months_diff of what add_months returned with self
YearMonthCalls ==
    /\ pc = "year_month"
    /\ pc' = "done"
    /\ returned' = [months_diff |-> months_diff(args.self, args.other),
                    reverse |-> months_diff(args.other, args.self),
                    add_months |-> add_months(args.self, args.n_month),
                    back |-> months_diff(add_months(args.self, args.n_month), args.self)]
    /\ UNCHANGED <<args, var_calls, report, reported, quantity_at_start, products_dict, orders, today,
                   orders_to_process, requests, error, handled, metrics, po_sales, data,
                   predicted_sales>>

NextYearMonth == YearMonthCalls

YearMonthSpec == InitYearMonth /\ [][NextYearMonth]_vars

(* ----------------- _sort_and_get_first taken on its own ----------------- *)
\* the dictionaries of at most MaxEntries entries: the keys differ and come
\* in any order, the counts are quantities
Dictionaries ==
    UNION {{[i \in 1..n |-> [key |-> keys[i], value |-> counts[i]]] :
               keys \in {f \in [1..n -> 1..MaxEntries] :
                            \A a, b \in 1..n : a # b => f[a] # f[b]},
               counts \in [1..n -> 0..MaxQty]} : n \in 0..MaxEntries}

InitSortAndGetFirst ==
    /\ \E obj_dict \in Dictionaries : args = [obj_dict |-> obj_dict, reverse |-> TRUE]
    /\ pc = "sort_and_get_first"
    /\ NoRun

\* self._sort_and_get_first(obj_dict, True)
SortAndGetFirst ==
    /\ pc = "sort_and_get_first"
    /\ pc' = "done"
    /\ returned' = sort_and_get_first(args.obj_dict, args.reverse)
    /\ UNCHANGED <<args, var_calls, report, reported, quantity_at_start, products_dict,
                   orders, today, orders_to_process, requests, error, handled, metrics,
                   po_sales, data, predicted_sales>>

\* a run, or a call of _sort_and_get_first on its own
InitMetrics == Init \/ InitSortAndGetFirst

NextMetrics ==
    \/ FilterAndSort
    \/ UpdateOrder
    \/ EndProcessOrders
    \/ PrintMetrics
    \/ GetProductsSaleSeries
    \/ PredictNextMonthSales
    \/ SortAndGetFirst

MetricsSpec == InitMetrics /\ [][NextMetrics]_vars

(* ====================== properties: fulfilment ========================= *)
OrderIds == 1..Len(orders)

ItemIds(o) == 1..Len(orders[o].items)

Resolvable(o) == {i \in ItemIds(o) : Resolves(products_dict, orders[o].items[i])}

\* what the option of a resolvable item holds in the catalog
Available(o, i) ==
    available_quantity(OptionOf(products_dict, OptionKey(orders[o].items[i])))

Enough(o, i) == orders[o].items[i].quantity <= Available(o, i)

EverySufficient(o) == \A i \in Resolvable(o) : Enough(o, i)

\* the handler is about to run for the head of orders_to_process
Handling == pc = "process_orders" /\ orders_to_process # << >>

\* the requests a step adds
NewRequests == SubSeq(requests', Len(requests) + 1, Len(requests'))

RequestsOf(o) == SelectSeq(requests, LAMBDA r : r.order = o)

Kinds(rs) == [k \in 1..Len(rs) |-> rs[k].kind]

Position(o) == CHOOSE p \in 1..Len(handled) : handled[p] = o

WasHandled(o) == \E p \in 1..Len(handled) : handled[p] = o

\* C1: a new order that is handled becomes PROCESSING, with an inventory
\* update sent, only if every resolvable item asks for no more than its
\* option holds; when some resolvable item asks for more, the order becomes
\* BACKORDERED (or stays NEW because its backorder request failed), the only
\* request made is the backorder request and no quantity changes.
C1_AllOrNothing ==
    [][Handling =>
        LET o == Head(orders_to_process) IN
        /\ orders'[o].state = PROCESSING => EverySufficient(o)
        /\ (\E k \in 1..Len(NewRequests) : NewRequests[k].kind # "backorder")
              => EverySufficient(o)
        /\ ~EverySufficient(o) =>
              /\ orders'[o].state = BACKORDERED \/ error' = "URLError"
              /\ orders'[o].state # PROCESSING
              /\ Kinds(NewRequests) = <<"backorder">>
              /\ products_dict' = products_dict]_vars

\* an order was backordered although an earlier item of it had enough stock
C1_Witness ==
    \E o \in OrderIds :
        /\ WasHandled(o)
        /\ orders[o].state = BACKORDERED
        /\ \E i, j \in Resolvable(o) : i < j /\ Enough(o, i) /\ ~Enough(o, j)

\* the quantity the items of order o ask of an option, from item i on
RECURSIVE Requested(_, _, _)
Requested(o, key, i) ==
    IF i > Len(orders[o].items)
    THEN 0
    ELSE (IF OptionKey(orders[o].items[i]) = key THEN orders[o].items[i].quantity ELSE 0)
         + Requested(o, key, i + 1)

\* what the orders accepted among the first p handled ones took of an option
RECURSIVE AcceptedQuantity(_, _)
AcceptedQuantity(key, p) ==
    IF p = 0
    THEN 0
    ELSE (IF orders[handled[p]].state = PROCESSING THEN Requested(handled[p], key, 1) ELSE 0)
         + AcceptedQuantity(key, p - 1)

\* what is left of an option for the p-th handled order
Remaining(key, p) ==
    available_quantity(OptionOf(quantity_at_start, key)) - AcceptedQuantity(key, p - 1)

\* C2: an order is accepted only if every resolvable item of it asks for no
\* more than the option held at the start of the run less what the orders
\* accepted earlier in the run took: of two orders that one unit cannot both
\* serve, the later one is not accepted.
C2_SequentialStock ==
    \A p \in 1..Len(handled) :
        orders[handled[p]].state = PROCESSING =>
            \A i \in Resolvable(handled[p]) :
                orders[handled[p]].items[i].quantity
                    <= Remaining(OptionKey(orders[handled[p]].items[i]), p)

OptionKeys == {<<p, k>> : p \in DOMAIN products_dict, k \in {"A", "B"}}

\* C3: no option's quantity is negative, in the catalog or in an inventory
\* update, and an option's quantity in the catalog is below what it was at
\* the start only if an item of an order accepted in this run refers to it.
C3_NeverNegative ==
    /\ \A key \in OptionKeys :
          /\ available_quantity(OptionOf(products_dict, key)) >= 0
          /\ available_quantity(OptionOf(products_dict, key))
                < available_quantity(OptionOf(quantity_at_start, key))
             => \E o \in OrderIds : /\ WasHandled(o)
                                    /\ orders[o].state = PROCESSING
                                    /\ Requested(o, key, 1) > 0
    /\ \A k \in 1..Len(requests) :
          requests[k].kind = "inventory_update" =>
              \A e \in 1..Len(requests[k].payload) :
                  requests[k].payload[e].current_quantity >= 0

\* an accepted order took all that an option held
C3_Witness ==
    \E k \in 1..Len(requests) :
        /\ requests[k].kind = "inventory_update"
        /\ orders[requests[k].order].state = PROCESSING
        /\ \E e \in 1..Len(requests[k].payload) :
              requests[k].payload[e].current_quantity = 0

\* C4: the step that backorders an order changes no quantity and makes one
\* request, the backorder request: no inventory update is made for the order.
C4_BackorderFrame ==
    [][\A o \in OrderIds :
          orders[o].state # BACKORDERED /\ orders'[o].state = BACKORDERED =>
              /\ products_dict' = products_dict
              /\ Kinds(NewRequests) = <<"backorder">>
              /\ \A k \in 1..Len(requests') :
                    requests'[k].order = o => requests'[k].kind = "backorder"]_vars

\* item 1 asks more of A than A holds, item 2 asks of B no more than B holds:
\* the order is backordered and B holds what it held
C4_Witness ==
    \E o \in OrderIds :
        /\ WasHandled(o)
        /\ orders[o].state = BACKORDERED
        /\ Len(orders[o].items) = 2
        /\ OptionKey(orders[o].items[1]) = <<"P1", "A">>
        /\ OptionKey(orders[o].items[2]) = <<"P1", "B">>
        /\ ~Enough(o, 1)
        /\ Enough(o, 2)
        /\ available_quantity(OptionOf(products_dict, <<"P1", "B">>)) = MaxQty

\* C5: a step changes the state of an order only from NEW and only to
\* PROCESSING or BACKORDERED, and every request it makes is for an order that
\* is NEW before the step; so an order not NEW at the start keeps its state
\* and has no request, and no state changes twice.
C5_OnlyNewOnce ==
    [][/\ \A o \in OrderIds :
             orders'[o].state # orders[o].state =>
                 /\ orders[o].state = NEW_
                 /\ orders'[o].state \in {PROCESSING, BACKORDERED}
       /\ \A k \in 1..Len(NewRequests) : orders[NewRequests[k].order].state = NEW_
       /\ Len(orders') = Len(orders)]_vars

\* the run handled a new order and left a canceled order alone
C5_Witness ==
    /\ pc = "print_metrics"
    /\ \E o, n \in OrderIds :
          /\ WasHandled(o)
          /\ orders[o].state = PROCESSING
          /\ ~WasHandled(n)
          /\ orders[n].state = CANCELED
          /\ RequestsOf(n) = << >>

C7_RequestSequence ==
    /\ \A o \in OrderIds :
          /\ WasHandled(o) /\ orders[o].state = PROCESSING
                => Kinds(RequestsOf(o)) = <<"inventory_update", "accept">>
          /\ WasHandled(o) /\ orders[o].state = BACKORDERED
                => Kinds(RequestsOf(o)) = <<"backorder">>
    /\ \A k \in 1..Len(requests) : WasHandled(requests[k].order)
    /\ \A j, k \in 1..Len(requests) :
          j < k => Position(requests[j].order) <= Position(requests[k].order)

\* an accepted order was followed by a backordered one
C7_Witness ==
    /\ Len(handled) = 2
    /\ orders[handled[1]].state = PROCESSING
    /\ orders[handled[2]].state = BACKORDERED
    /\ Kinds(requests) = <<"inventory_update", "accept", "backorder">>

\* an item of an order that was handled is not in the catalog
SomeItemUnknown == \E o \in OrderIds : WasHandled(o) /\ Resolvable(o) # ItemIds(o)

\* C8: an item that is not in the catalog does not end the run: unless a
\* request failed, every new order is handled, the metrics are printed and
\* the forecast is made.
C8_UnknownItemSkipped ==
    SomeItemUnknown /\ pc = "done" /\ error # "URLError" =>
        /\ error = "none"
        /\ orders_to_process = << >>
        /\ metrics = "printed"

\* C9: the sale records are one for each item of each sold order and none
\* for an item of an order that is not sold.
C9_SalesOfSoldOrders ==
    pc = "predict_next_month_sales" =>
        /\ \A p \in 1..Len(po_sales) : \A s \in 1..Len(po_sales[p].value) :
              is_sold(orders[po_sales[p].value[s].order])
        /\ \A o \in OrderIds : \A i \in ItemIds(o) :
              is_sold(orders[o]) =>
                  Cardinality({<<p, s>> \in (1..Len(po_sales)) \X (1..MaxOrders * MaxItems) :
                                  /\ s <= Len(po_sales[p].value)
                                  /\ po_sales[p].value[s].order = o
                                  /\ po_sales[p].value[s].item = i}) = 1

\* the options that more than one resolvable item of order o refers to
Shared(o) ==
    {key \in {OptionKey(orders[o].items[i]) : i \in Resolvable(o)} :
        Cardinality({i \in Resolvable(o) : OptionKey(orders[o].items[i]) = key}) > 1}

\* C14: an order accepted in the run, with an option that several of its
\* items refer to, was accepted with the option holding at least the sum of
\* the quantities of those items, and the inventory update of the order gives,
\* for that option, what the option held less that sum.
C14_DuplicateItemsSummed ==
    \A o \in OrderIds :
        WasHandled(o) /\ orders[o].state = PROCESSING =>
            \A key \in Shared(o) :
                LET available == available_quantity(OptionOf(products_dict, key)) IN
                /\ Requested(o, key, 1) <= available
                /\ \A k \in 1..Len(requests) :
                      requests[k].order = o /\ requests[k].kind = "inventory_update" =>
                          \A e \in 1..Len(requests[k].payload) :
                              requests[k].payload[e].sku = OptionOf(products_dict, key).sku
                                  => requests[k].payload[e].current_quantity
                                         = available - Requested(o, key, 1)

\* C15: an order handled in the run is PROCESSING only with an accept request
\* that returned, and BACKORDERED only with a backorder request that returned;
\* when a request of an order raised, the order is still NEW at the end of the
\* run, whichever of its requests it was.
C15_StateAfterRequest ==
    /\ \A o \in OrderIds :
          WasHandled(o) =>
              /\ orders[o].state = PROCESSING =>
                    \E k \in 1..Len(requests) : /\ requests[k].order = o
                                                /\ requests[k].kind = "accept"
                                                /\ requests[k].ok
              /\ orders[o].state = BACKORDERED =>
                    \E k \in 1..Len(requests) : /\ requests[k].order = o
                                                /\ requests[k].kind = "backorder"
                                                /\ requests[k].ok
              /\ (\E k \in 1..Len(requests) : requests[k].order = o /\ ~requests[k].ok)
                    => orders[o].state = NEW_
    /\ error = "URLError" => orders[handled[Len(handled)]].state = NEW_

\* the inventory update of an order returned and its accept request raised
C15_Witness ==
    /\ error = "URLError"
    /\ pc = "done"
    /\ \E o \in OrderIds :
          /\ Len(RequestsOf(o)) = 2
          /\ RequestsOf(o)[1].kind = "inventory_update" /\ RequestsOf(o)[1].ok
          /\ RequestsOf(o)[2].kind = "accept" /\ ~RequestsOf(o)[2].ok
          /\ orders[o].state = NEW_

(* ===================== properties: sales series ======================== *)
\* months since year 0
MonthNumber(ym) == ym.year * 12 + ym.month

\* the sale records, as (option position, position in the option's list)
SaleIds == {<<p, s>> \in (1..Len(po_sales)) \X (1..MaxSales) : s <= Len(po_sales[p].value)}

SaleAt(id) == po_sales[id[1]].value[id[2]]

Groups == {SaleAt(id).group : id \in SaleIds}

SalesIn(group) == {id \in SaleIds : SaleAt(id).group = group}

\* the number of the earliest month of a sale of the group
Earliest(group) ==
    CHOOSE n \in {MonthNumber(SaleAt(id).sale_date) : id \in SalesIn(group)} :
        \A id \in SalesIn(group) : n <= MonthNumber(SaleAt(id).sale_date)

\* the options with a sale in the group, in the order they are first met
Columns(group) ==
    SelectSeq([p \in 1..Len(po_sales) |-> p],
              LAMBDA p : \E id \in SalesIn(group) : id[1] = p)

\* the sum of the quantities of the sales of option p in the group and in
\* the month m months after the earliest, from the s-th sale of p on
RECURSIVE CellSum(_, _, _, _)
CellSum(group, p, m, s) ==
    IF s > Len(po_sales[p].value)
    THEN 0
    ELSE LET sale == po_sales[p].value[s] IN
         (IF sale.group = group /\ MonthNumber(sale.sale_date) - Earliest(group) = m
          THEN sale.quantity
          ELSE 0) + CellSum(group, p, m, s + 1)

\* today is not earlier than the month of any sale
TodayCovers == \A id \in SaleIds : MonthNumber(SaleAt(id).sale_date) <= MonthNumber(today)

\* C10: when today is not earlier than any sale month, there is a matrix for
\* every group that has a sale and for no other; it has a row for every
\* month from the group's earliest sale month through today and a column
\* for every option of the group in first-met order, and each cell is the
\* sum of the quantities of the sales of that option, group and month.
C10_DenseSeries ==
    pc = "done" /\ error \notin {"URLError", "KeyError"} /\ TodayCovers =>
        /\ error \in {"none", "Exception"}
        /\ {data[g].key : g \in 1..Len(data)} = Groups
        /\ Len(data) = Cardinality(Groups)
        /\ \A g \in 1..Len(data) :
              LET group == data[g].key
                  matrix == data[g].value
                  columns == Columns(group)
              IN  /\ Len(matrix) = MonthNumber(today) - Earliest(group) + 1
                  /\ Len(matrix) = months_diff(today, DictGet(
                         group_and_index_sales_by_month(po_sales).group_initial_year_month,
                         group)) + 1
                  /\ \A r \in 1..Len(matrix) :
                        /\ Len(matrix[r]) = Len(columns)
                        /\ \A c \in 1..Len(columns) :
                              matrix[r][c] = CellSum(group, columns[c], r - 1, 1)

\* the series of a group with sales of A in the first and third month and a
\* sale of B in the second, across the turn of the year
C10_Witness ==
    /\ pc = "done"
    /\ today = date_time(2)
    /\ \E g \in 1..Len(data) : data[g].value = <<<<2, 0>>, <<0, 1>>, <<1, 0>>>>

\* the matrices were made: _prepare_data returned
Prepared == pc = "done" /\ data # << >>

GroupIds == 1..Len(data)

Called(g) == \E c \in 1..Len(var_calls) : var_calls[c] = data[g].key

\* the groups with a forecast, in the order of the matrices
Forecast == SelectSeq([g \in 1..Len(data) |-> data[g].key],
                      LAMBDA group : /\ DictHas(predicted_sales, group)
                                     /\ DictGet(predicted_sales, group) # None)

\* C13: once the matrices are made the run ends without an exception, every
\* group having a result: None, the library not called, for a matrix of fewer
\* than 2 columns; a forecast or None, the library called once, for a matrix
\* of 2 or more; and the report has a section for each group with a forecast
\* and for no other.
C13_ForecastNeverAborts ==
    Prepared =>
        /\ error = "none"
        /\ Len(predicted_sales) = Len(data)
        /\ \A g \in GroupIds :
              /\ DictHas(predicted_sales, data[g].key)
              /\ LessThan2Variables(data[g].value) =>
                    /\ ~Called(g)
                    /\ DictGet(predicted_sales, data[g].key) = None
              /\ ~LessThan2Variables(data[g].value) => Called(g)
        /\ [k \in 1..Len(report) |-> report[k].group] = Forecast

\* C12: a.months_diff(b) is the number of a's month less the number of b's,
\* the months numbered year * 12 + month, and so the negative of
\* b.months_diff(a); a.add_months(n) has its month in 1..12, is n months
\* from a by months_diff, and is the month of a's number plus n.
C12_MonthArithmetic ==
    pc = "done" =>
        /\ returned.months_diff = MonthNumber(args.self) - MonthNumber(args.other)
        /\ returned.months_diff = 0 - returned.reverse
        /\ returned.add_months.month \in 1..12
        /\ returned.back = args.n_month
        /\ MonthNumber(returned.add_months) = MonthNumber(args.self) + args.n_month

\* from November 2022, January 2023 is 2 months on, by both operations
C12_Witness ==
    /\ pc = "done"
    /\ args.self = YearMonth(2022, 11)
    /\ args.other = YearMonth(2023, 1)
    /\ args.n_month = 2
    /\ returned.reverse = 2
    /\ returned.months_diff = 0 - 2
    /\ returned.add_months = YearMonth(2023, 1)

(* ========================= properties: metrics ========================= *)
\* r is an entry of d with the greatest count, and no entry before it in d
\* has that count
FirstMaximum(d, r) ==
    \E i \in 1..Len(d) :
        /\ r.obj = d[i].key
        /\ r.count = d[i].value
        /\ \A j \in 1..Len(d) : d[j].value <= d[i].value
        /\ \A j \in 1..(i - 1) : d[j].value < d[i].value

\* a call of _sort_and_get_first on its own has returned
Returned == pc = "done" /\ metrics = "none" /\ error = "none"

\* C11: what _sort_and_get_first returns for a dictionary that is not empty
\* is an entry with the greatest count, the first of them in the order of
\* the dictionary; and so is what each of the four metrics of a run reports
\* of its dictionary (units by option, dollars by order, orders by region,
\* units by order).
C11_FirstMaximum ==
    /\ Returned /\ args.obj_dict # << >> => FirstMaximum(args.obj_dict, returned)
    /\ metrics = "printed" =>
          /\ products_options_sell_info(orders) # << >> =>
                FirstMaximum(products_options_sell_info(orders), reported.best_selling)
          /\ orders_dollar_amount(orders) # << >> =>
                FirstMaximum(orders_dollar_amount(orders), reported.largest_order)
          /\ state_order_count(orders) # << >> =>
                FirstMaximum(state_order_count(orders), reported.state_with_most)
          /\ order_item_quantity(orders) # << >> =>
                FirstMaximum(order_item_quantity(orders), reported.biggest_order)

\* two entries have the greatest count, neither is the first entry, and the
\* one returned is the earlier of the two although its key is the greater
C11_Witness ==
    /\ Returned
    /\ Len(args.obj_dict) = 3
    /\ args.obj_dict[1].value < args.obj_dict[2].value
    /\ args.obj_dict[2].value = args.obj_dict[3].value
    /\ args.obj_dict[2].key > args.obj_dict[3].key
    /\ returned.obj = args.obj_dict[2].key

====
